---- MODULE Spec2Model ----
(***************************************************************************)
(* A model of the 6502-class emulator core of NES_Emulator:                *)
(* src/hardware/cpu.rs (registers, memory primitives, addressing-mode      *)
(* resolver, instruction handlers, load / reset / run) and                 *)
(* src/hardware/opcodes.rs (the opcode table and the status-flag masks).   *)
(*                                                                         *)
(* Memory is `[u8; 0xFFFF]`, zero-initialised.  It is represented by the   *)
(* function holding exactly its non-zero cells: an address that is absent  *)
(* from DOMAIN memory and below MemLen holds 0x00.  Indexing at or above   *)
(* MemLen is the array-bounds panic of the Rust code.                      *)
(*                                                                         *)
(* A Rust panic is a hard failure: the operation stops where it panics,    *)
(* keeping the assignments made before that point.  Operations return a    *)
(* record [cpu, fail]; fail = "None" is a normal return.                   *)
(***************************************************************************)
EXTENDS Integers, Sequences, FiniteSets, TLC

VARIABLES
  register_a,       \* CPU.register_a : u8
  register_x,       \* CPU.register_x : u8
  register_y,       \* CPU.register_y : u8
  status,           \* CPU.status : u8
  stack_pointer,    \* CPU.stack_pointer : u8
  program_counter,  \* CPU.program_counter : u16
  memory,           \* CPU.memory : [u8; 0xFFFF], non-zero cells only
  run_state,        \* READY (run not called yet), RUNNING (inside the loop of
                    \* run), HALTED (run has returned), FAILED (panicked)
  failure,          \* the kind of hard failure, "None" when there is none
  last_op,          \* the operation or instruction that acted last
  run_entry,        \* the registers as they were when run was last entered
  runs,             \* the number of times run has been entered
  loads,            \* the number of times load has been called
  loaded_program    \* the byte sequence given to the last call of load

vars == <<register_a, register_x, register_y, status, stack_pointer,
          program_counter, memory, run_state, failure, last_op, run_entry,
          runs, loads, loaded_program>>

-----------------------------------------------------------------------------
(* Program constants *)

STACK_RESET == 253
MemLen == 65535
LoadBase == 32768
ResetVector == 65532
InitialStatus == 36

CARRY == 1
ZERO == 2
INTERRUPT_DISABLE == 4
DECIMAL_MODE == 8
BREAK == 16
BREAK2 == 32
OVERFLOW == 64
NEGATIVE == 128

Byte == 0 .. 255

-----------------------------------------------------------------------------
(* u8 bit operations *)

RECURSIVE BitAnd(_, _)
BitAnd(a, b) ==
  IF a = 0 \/ b = 0 THEN 0
  ELSE (a % 2) * (b % 2) + 2 * BitAnd(a \div 2, b \div 2)

BitOr(a, b) == a + b - BitAnd(a, b)

\* status_flag & self.status != 0
FlagSet(s, mask) == BitAnd(s, mask) # 0

wrapping_add8(a, b) == (a + b) % 256
wrapping_sub8(a, b) == (a - b + 256) % 256
wrapping_add16(a, b) == (a + b) % 65536

-----------------------------------------------------------------------------
(* Outcomes *)

Ok(c) == [cpu |-> c, fail |-> "None"]
Panic(c, kind) == [cpu |-> c, fail |-> kind]

-----------------------------------------------------------------------------
(* Memory primitives *)

EmptyMemory == [a \in {} |-> 0]

\* self.memory[addr as usize] is in bounds
InBounds(addr) == addr < MemLen

\* mem_read, for an address in bounds
mem_read(m, addr) == IF addr \in DOMAIN m THEN m[addr] ELSE 0

\* mem_write, for an address in bounds
mem_write(m, addr, data) ==
  [a \in (IF data = 0 THEN DOMAIN m \ {addr} ELSE DOMAIN m \cup {addr}) |->
     IF a = addr THEN data ELSE m[a]]

\* mem_read_u16 reads memory_pos, then memory_pos + 1
mem_read_u16_ok(memory_pos) == InBounds(memory_pos) /\ InBounds(memory_pos + 1)

mem_read_u16(m, memory_pos) ==
  LET lo == mem_read(m, memory_pos)
      hi == mem_read(m, memory_pos + 1)
  IN  hi * 256 + lo

\* mem_write_u16 writes lo at memory_pos, then hi at memory_pos + 1
mem_write_u16(m, memory_pos, data) ==
  LET hi == data \div 256
      lo == data % 256
  IN  mem_write(mem_write(m, memory_pos, lo), memory_pos + 1, hi)

-----------------------------------------------------------------------------
(* The opcode table *)

AddressingModes ==
  {"Immediate", "ZeroPage", "ZeroPage_X", "ZeroPage_Y", "Absolute",
   "Absolute_X", "Absolute_Y", "Indirect_X", "Indirect_Y", "NoneAddressing"}

OpCode(name, byte_count, cycle_count, mode) ==
  [name |-> name, byte_count |-> byte_count, cycle_count |-> cycle_count,
   mode |-> mode]

valid_codes ==
  {173, 189, 185, 169, 161, 177, 165, 181,
   141, 157, 153, 129, 145, 133, 149,
   109, 125, 121, 105, 97, 113, 101, 117,
   0, 170, 232}

\* impl From<u8> for OpCode; a value outside the match panics
OpCode_from(value) ==
  CASE value = 173 -> OpCode("LDA", 3, 4, "Absolute")
    [] value = 189 -> OpCode("LDA", 3, 4, "Absolute_X")
    [] value = 185 -> OpCode("LDA", 3, 4, "Absolute_Y")
    [] value = 169 -> OpCode("LDA", 2, 2, "Immediate")
    [] value = 161 -> OpCode("LDA", 2, 6, "Indirect_X")
    [] value = 177 -> OpCode("LDA", 2, 5, "Indirect_Y")
    [] value = 165 -> OpCode("LDA", 2, 3, "ZeroPage")
    [] value = 181 -> OpCode("LDA", 2, 4, "ZeroPage_X")
    [] value = 141 -> OpCode("STA", 3, 4, "Absolute")
    [] value = 157 -> OpCode("STA", 3, 5, "Absolute_X")
    [] value = 153 -> OpCode("STA", 3, 5, "Absolute_Y")
    [] value = 129 -> OpCode("STA", 2, 6, "Indirect_X")
    [] value = 145 -> OpCode("STA", 2, 6, "Indirect_Y")
    [] value = 133 -> OpCode("STA", 2, 3, "ZeroPage")
    [] value = 149 -> OpCode("STA", 2, 4, "ZeroPage_X")
    [] value = 109 -> OpCode("ADC", 3, 4, "Absolute")
    [] value = 125 -> OpCode("ADC", 3, 4, "Absolute_X")
    [] value = 121 -> OpCode("ADC", 3, 4, "Absolute_Y")
    [] value = 105 -> OpCode("ADC", 2, 2, "Immediate")
    [] value = 97 -> OpCode("ADC", 2, 6, "Indirect_X")
    [] value = 113 -> OpCode("ADC", 2, 5, "Indirect_Y")
    [] value = 101 -> OpCode("ADC", 2, 3, "ZeroPage")
    [] value = 117 -> OpCode("ADC", 2, 4, "ZeroPage_X")
    [] value = 0 -> OpCode("BRK", 1, 7, "NoneAddressing")
    [] value = 170 -> OpCode("TAX", 1, 2, "NoneAddressing")
    [] value = 232 -> OpCode("INX", 1, 2, "NoneAddressing")

\* variant: the entry of 0x85 (STA, zero page) carries NoneAddressing
OPCODES_MAP_sta_without_mode ==
  [code \in valid_codes |->
     IF code = 133 THEN OpCode("STA", 2, 3, "NoneAddressing")
     ELSE OpCode_from(code)]

\* variant: 0xE9 (SBC, immediate) is one of the valid codes
OPCODES_MAP_with_sbc ==
  [code \in valid_codes \cup {233} |->
     IF code = 233 THEN OpCode("SBC", 2, 2, "Immediate")
     ELSE OpCode_from(code)]

OPCODES_MAP == [code \in valid_codes |-> OpCode_from(code)]

-----------------------------------------------------------------------------
(* The addressing-mode resolver: [addr, fail]; it changes no state *)

Resolved(addr) == [addr |-> addr, fail |-> "None"]
Unresolved(kind) == [addr |-> 0, fail |-> kind]

\* variant: Indirect_X reads the high byte at ptr + 1 without the wrap to the
\* zero page
get_operand_address_hi_unwrapped(c, mode) ==
  LET pc == c.program_counter
      m == c.memory
  IN
  CASE mode = "Absolute" ->
         IF ~mem_read_u16_ok(pc) THEN Unresolved("OutOfBounds")
         ELSE Resolved(mem_read_u16(m, pc))
    [] mode = "Absolute_X" ->
         IF ~mem_read_u16_ok(pc) THEN Unresolved("OutOfBounds")
         ELSE Resolved(wrapping_add16(mem_read_u16(m, pc), c.register_x))
    [] mode = "Absolute_Y" ->
         IF ~mem_read_u16_ok(pc) THEN Unresolved("OutOfBounds")
         ELSE Resolved(wrapping_add16(mem_read_u16(m, pc), c.register_y))
    [] mode = "Immediate" -> Resolved(pc)
    [] mode = "Indirect_X" ->
         IF ~InBounds(pc) THEN Unresolved("OutOfBounds")
         ELSE LET base == mem_read(m, pc)
                  ptr == wrapping_add8(base, c.register_x)
                  lo == mem_read(m, ptr)
                  hi == mem_read(m, ptr + 1)
              IN  Resolved(hi * 256 + lo)
    [] mode = "Indirect_Y" ->
         IF ~InBounds(pc) THEN Unresolved("OutOfBounds")
         ELSE LET base == mem_read(m, pc)
                  lo == mem_read(m, base)
                  hi == mem_read(m, wrapping_add8(base, 1))
                  deref_base == hi * 256 + lo
              IN  Resolved(wrapping_add16(deref_base, c.register_y))
    [] mode = "ZeroPage" ->
         IF ~InBounds(pc) THEN Unresolved("OutOfBounds")
         ELSE Resolved(mem_read(m, pc))
    [] mode = "ZeroPage_X" ->
         IF ~InBounds(pc) THEN Unresolved("OutOfBounds")
         ELSE Resolved(wrapping_add8(mem_read(m, pc), c.register_x))
    [] mode = "ZeroPage_Y" ->
         IF ~InBounds(pc) THEN Unresolved("OutOfBounds")
         ELSE Resolved(wrapping_add8(mem_read(m, pc), c.register_y))
    [] mode = "NoneAddressing" -> Unresolved("UnsupportedAddressingMode")

get_operand_address(c, mode) ==
  LET pc == c.program_counter
      m == c.memory
  IN
  CASE mode = "Absolute" ->
         IF ~mem_read_u16_ok(pc) THEN Unresolved("OutOfBounds")
         ELSE Resolved(mem_read_u16(m, pc))
    [] mode = "Absolute_X" ->
         IF ~mem_read_u16_ok(pc) THEN Unresolved("OutOfBounds")
         ELSE Resolved(wrapping_add16(mem_read_u16(m, pc), c.register_x))
    [] mode = "Absolute_Y" ->
         IF ~mem_read_u16_ok(pc) THEN Unresolved("OutOfBounds")
         ELSE Resolved(wrapping_add16(mem_read_u16(m, pc), c.register_y))
    [] mode = "Immediate" -> Resolved(pc)
    [] mode = "Indirect_X" ->
         IF ~InBounds(pc) THEN Unresolved("OutOfBounds")
         ELSE LET base == mem_read(m, pc)
                  ptr == wrapping_add8(base, c.register_x)
                  lo == mem_read(m, ptr)
                  hi == mem_read(m, wrapping_add8(ptr, 1))
              IN  Resolved(hi * 256 + lo)
    [] mode = "Indirect_Y" ->
         IF ~InBounds(pc) THEN Unresolved("OutOfBounds")
         ELSE LET base == mem_read(m, pc)
                  lo == mem_read(m, base)
                  hi == mem_read(m, wrapping_add8(base, 1))
                  deref_base == hi * 256 + lo
              IN  Resolved(wrapping_add16(deref_base, c.register_y))
    [] mode = "ZeroPage" ->
         IF ~InBounds(pc) THEN Unresolved("OutOfBounds")
         ELSE Resolved(mem_read(m, pc))
    [] mode = "ZeroPage_X" ->
         IF ~InBounds(pc) THEN Unresolved("OutOfBounds")
         ELSE Resolved(wrapping_add8(mem_read(m, pc), c.register_x))
    [] mode = "ZeroPage_Y" ->
         IF ~InBounds(pc) THEN Unresolved("OutOfBounds")
         ELSE Resolved(wrapping_add8(mem_read(m, pc), c.register_y))
    [] mode = "NoneAddressing" -> Unresolved("UnsupportedAddressingMode")

-----------------------------------------------------------------------------
(* Flags and instruction handlers *)

\* variant: ZERO is cleared with the mask 0b1111_1001
update_zero_and_negative_flags_wide_mask(s, result) ==
  LET s1 == IF result = 0 THEN BitOr(s, 2) ELSE BitAnd(s, 249)
  IN  IF BitAnd(result, 128) # 0 THEN BitOr(s1, 128) ELSE BitAnd(s1, 127)

update_zero_and_negative_flags(s, result) ==
  LET s1 == IF result = 0 THEN BitOr(s, 2) ELSE BitAnd(s, 253)
  IN  IF BitAnd(result, 128) # 0 THEN BitOr(s1, 128) ELSE BitAnd(s1, 127)

brk(c) == Ok([c EXCEPT !.status = BitOr(c.status, 20)])

\* variant: the increment is checked, so 0xFF + 1 is a fatal overflow
inx_overflow_fatal(c) ==
  IF c.register_x = 255 THEN Panic(c, "ArithmeticOverflow")
  ELSE LET x == c.register_x + 1
       IN  Ok([c EXCEPT !.register_x = x,
                        !.status = update_zero_and_negative_flags(c.status, x)])

inx(c) ==
  LET x == wrapping_add8(c.register_x, 1)
  IN  Ok([c EXCEPT !.register_x = x,
                   !.status = update_zero_and_negative_flags(c.status, x)])

lda(c, mode) ==
  LET r == get_operand_address(c, mode)
  IN  IF r.fail # "None" THEN Panic(c, r.fail)
      ELSE IF ~InBounds(r.addr) THEN Panic(c, "OutOfBounds")
      ELSE LET value == mem_read(c.memory, r.addr)
           IN  Ok([c EXCEPT !.register_a = value,
                            !.status = update_zero_and_negative_flags(c.status, value)])

sta(c, mode) ==
  LET r == get_operand_address(c, mode)
  IN  IF r.fail # "None" THEN Panic(c, r.fail)
      ELSE IF ~InBounds(r.addr) THEN Panic(c, "OutOfBounds")
      ELSE Ok([c EXCEPT !.memory = mem_write(c.memory, r.addr, c.register_a)])

\* variant: the flags are updated before the copy, from the prior X
tax_flags_of_prior_x(c) ==
  Ok([c EXCEPT !.register_x = c.register_a,
               !.status = update_zero_and_negative_flags(c.status, c.register_x)])

tax(c) ==
  LET x == c.register_a
  IN  Ok([c EXCEPT !.register_x = x,
                   !.status = update_zero_and_negative_flags(c.status, x)])

\* variant: the carry-in is left out of the sum
adc_without_carry_in(c, mode) ==
  LET r == get_operand_address(c, mode)
  IN  IF r.fail # "None" THEN Panic(c, r.fail)
      ELSE IF ~InBounds(r.addr) THEN Panic(c, "OutOfBounds")
      ELSE LET value == mem_read(c.memory, r.addr)
               result == wrapping_add8(c.register_a, value)
               s1 == IF result <= c.register_a
                     THEN BitOr(c.status, 65)
                     ELSE BitAnd(c.status, 190)
           IN  Ok([c EXCEPT !.register_a = result,
                            !.status = update_zero_and_negative_flags(s1, result)])

\* variant: the carry test is `result < current_accumulator_value`
adc_strict_compare(c, mode) ==
  LET r == get_operand_address(c, mode)
  IN  IF r.fail # "None" THEN Panic(c, r.fail)
      ELSE IF ~InBounds(r.addr) THEN Panic(c, "OutOfBounds")
      ELSE LET value == mem_read(c.memory, r.addr)
               carry_bit == IF BitAnd(c.status, 1) # 0 THEN 1 ELSE 0
               result == wrapping_add8(wrapping_add8(c.register_a, value), carry_bit)
               s1 == IF result < c.register_a
                     THEN BitOr(c.status, 65)
                     ELSE BitAnd(c.status, 190)
           IN  Ok([c EXCEPT !.register_a = result,
                            !.status = update_zero_and_negative_flags(s1, result)])

adc(c, mode) ==
  LET r == get_operand_address(c, mode)
  IN  IF r.fail # "None" THEN Panic(c, r.fail)
      ELSE IF ~InBounds(r.addr) THEN Panic(c, "OutOfBounds")
      ELSE LET value == mem_read(c.memory, r.addr)
               current_accumulator_value == c.register_a
               carry_bit == IF BitAnd(c.status, 1) # 0 THEN 1 ELSE 0
               result == wrapping_add8(wrapping_add8(c.register_a, value), carry_bit)
               s1 == IF result <= current_accumulator_value
                     THEN BitOr(c.status, 65)
                     ELSE BitAnd(c.status, 190)
           IN  Ok([c EXCEPT !.register_a = result,
                            !.status = update_zero_and_negative_flags(s1, result)])

sbc(c, mode) ==
  LET r == get_operand_address(c, mode)
  IN  IF r.fail # "None" THEN Panic(c, r.fail)
      ELSE IF ~InBounds(r.addr) THEN Panic(c, "OutOfBounds")
      ELSE LET value == mem_read(c.memory, r.addr)
               carry_bit == IF BitAnd(c.status, 1) # 0 THEN 1 ELSE 0
               result == wrapping_sub8(wrapping_sub8(c.register_a, value), 1 - carry_bit)
           IN  Ok([c EXCEPT !.register_a = result])

\* the match on the mnemonic in run; every other arm is todo!()
dispatch(c, name, mode) ==
  CASE name = "ADC" -> adc(c, mode)
    [] name = "BRK" -> brk(c)
    [] name = "INX" -> inx(c)
    [] name = "LDA" -> lda(c, mode)
    [] name = "SBC" -> sbc(c, mode)
    [] name = "STA" -> sta(c, mode)
    [] name = "TAX" -> tax(c)
    [] OTHER -> Panic(c, "UnimplementedInstruction")

-----------------------------------------------------------------------------
(* new, load, reset and one iteration of the loop of run *)

new ==
  [register_a |-> 0, register_x |-> 0, register_y |-> 0,
   status |-> InitialStatus, stack_pointer |-> STACK_RESET,
   program_counter |-> 0, memory |-> EmptyMemory]

\* self.memory[0x8000 .. 0x8000 + len].copy_from_slice(&program[..])
\* variant: the copy stops one byte short of the end of the program
copy_from_slice_short(m, base, program) ==
  LET range == base .. (base + Len(program) - 2)
      kept == DOMAIN m \ range
      written == {a \in range : program[a - base + 1] # 0}
  IN  [a \in kept \cup written |->
         IF a \in range THEN program[a - base + 1] ELSE m[a]]

copy_from_slice(m, base, program) ==
  LET range == base .. (base + Len(program) - 1)
      kept == DOMAIN m \ range
      written == {a \in range : program[a - base + 1] # 0}
  IN  [a \in kept \cup written |->
         IF a \in range THEN program[a - base + 1] ELSE m[a]]

\* variant: the reset vector is written before the program is copied
load_vector_first(c, program) ==
  IF LoadBase + Len(program) > MemLen THEN Panic(c, "OutOfBounds")
  ELSE Ok([c EXCEPT !.memory =
             copy_from_slice(mem_write_u16(c.memory, ResetVector, LoadBase),
                             LoadBase, program)])

load(c, program) ==
  IF LoadBase + Len(program) > MemLen THEN Panic(c, "OutOfBounds")
  ELSE Ok([c EXCEPT !.memory =
             mem_write_u16(copy_from_slice(c.memory, LoadBase, program),
                           ResetVector, LoadBase)])

\* variant: the program counter is set to the load base, not read from the
\* reset vector
reset_to_load_base(c) ==
  LET c1 == [c EXCEPT !.register_a = 0, !.register_x = 0, !.register_y = 0,
                      !.stack_pointer = STACK_RESET, !.status = InitialStatus]
  IN  Ok([c1 EXCEPT !.program_counter = LoadBase])

reset(c) ==
  LET c1 == [c EXCEPT !.register_a = 0, !.register_x = 0, !.register_y = 0,
                      !.stack_pointer = STACK_RESET, !.status = InitialStatus]
  IN  IF ~mem_read_u16_ok(ResetVector) THEN Panic(c1, "OutOfBounds")
      ELSE Ok([c1 EXCEPT !.program_counter = mem_read_u16(c.memory, ResetVector)])

\* variant: the loop ends on BREAK (0b0001_0000)
loop_exit_on_break(s) == BitAnd(s, 16) # 0

\* the test that ends the loop of run
loop_exit(s) == BitAnd(s, 4) # 0

\* variant: a byte without a table entry is skipped as a one-byte no-op
run_iteration_skips_unknown(c) ==
  IF ~InBounds(c.program_counter)
  THEN [cpu |-> c, fail |-> "OutOfBounds", returned |-> FALSE, op |-> "fetch"]
  ELSE
    LET register == mem_read(c.memory, c.program_counter)
        c1 == [c EXCEPT !.program_counter = c.program_counter + 1]
    IN
    IF register \notin DOMAIN OPCODES_MAP
    THEN [cpu |-> c1, fail |-> "None", returned |-> loop_exit(c1.status),
          op |-> "lookup"]
    ELSE
      LET oc == OPCODES_MAP[register]
          h == dispatch(c1, oc.name, oc.mode)
          c3 == [h.cpu EXCEPT !.program_counter =
                   wrapping_add16(h.cpu.program_counter, oc.byte_count - 1)]
      IN
      IF h.fail # "None"
      THEN [cpu |-> h.cpu, fail |-> h.fail, returned |-> FALSE, op |-> oc.name]
      ELSE [cpu |-> c3, fail |-> "None", returned |-> loop_exit(c3.status),
            op |-> oc.name]

\* variant: the epilogue adds byte_count, not byte_count - 1
run_iteration_adds_byte_count(c) ==
  IF ~InBounds(c.program_counter)
  THEN [cpu |-> c, fail |-> "OutOfBounds", returned |-> FALSE, op |-> "fetch"]
  ELSE
    LET register == mem_read(c.memory, c.program_counter)
        c1 == [c EXCEPT !.program_counter = c.program_counter + 1]
    IN
    IF register \notin DOMAIN OPCODES_MAP
    THEN [cpu |-> c1, fail |-> "UnknownOpcode", returned |-> FALSE, op |-> "lookup"]
    ELSE
      LET oc == OPCODES_MAP[register]
          h == dispatch(c1, oc.name, oc.mode)
          c3 == [h.cpu EXCEPT !.program_counter =
                   wrapping_add16(h.cpu.program_counter, oc.byte_count)]
      IN
      IF h.fail # "None"
      THEN [cpu |-> h.cpu, fail |-> h.fail, returned |-> FALSE, op |-> oc.name]
      ELSE [cpu |-> c3, fail |-> "None", returned |-> loop_exit(c3.status),
            op |-> oc.name]

\* One iteration of the loop of run: [cpu, fail, returned, op].
\* The u16 additions to program_counter cannot overflow: the fetch at 0xFFFF
\* is out of bounds before `+= 1`, and a handler with operand bytes has read
\* them in bounds before `+= byte_count - 1`.
run_iteration(c) ==
  IF ~InBounds(c.program_counter)
  THEN [cpu |-> c, fail |-> "OutOfBounds", returned |-> FALSE, op |-> "fetch"]
  ELSE
    LET register == mem_read(c.memory, c.program_counter)
        c1 == [c EXCEPT !.program_counter = c.program_counter + 1]
        current_prog_state == c1.program_counter
    IN
    IF register \notin DOMAIN OPCODES_MAP
    THEN [cpu |-> c1, fail |-> "UnknownOpcode", returned |-> FALSE, op |-> "lookup"]
    ELSE
      LET oc == OPCODES_MAP[register]
          h == dispatch(c1, oc.name, oc.mode)
          c2 == h.cpu
          c3 == IF current_prog_state = c2.program_counter
                THEN [c2 EXCEPT !.program_counter =
                        wrapping_add16(c2.program_counter, oc.byte_count - 1)]
                ELSE c2
      IN
      IF h.fail # "None"
      THEN [cpu |-> c2, fail |-> h.fail, returned |-> FALSE, op |-> oc.name]
      ELSE [cpu |-> c3, fail |-> "None", returned |-> loop_exit(c3.status),
            op |-> oc.name]

-----------------------------------------------------------------------------------------------------------------------------------------------------
(* The state machine *)

cpu ==
  [register_a |-> register_a, register_x |-> register_x,
   register_y |-> register_y, status |-> status,
   stack_pointer |-> stack_pointer, program_counter |-> program_counter,
   memory |-> memory]

SetCpu(c) ==
  /\ register_a' = c.register_a
  /\ register_x' = c.register_x
  /\ register_y' = c.register_y
  /\ status' = c.status
  /\ stack_pointer' = c.stack_pointer
  /\ program_counter' = c.program_counter
  /\ memory' = c.memory

Registers(c) ==
  [register_a |-> c.register_a, register_x |-> c.register_x,
   register_y |-> c.register_y, status |-> c.status,
   stack_pointer |-> c.stack_pointer, program_counter |-> c.program_counter]

\* the caller holds the CPU and is not inside run
CallerHasControl == run_state \in {"READY", "HALTED"}

\* a call that returns to the caller or panics
Return(r, op) ==
  /\ SetCpu(r.cpu)
  /\ failure' = r.fail
  /\ run_state' = IF r.fail # "None" THEN "FAILED" ELSE run_state
  /\ last_op' = op
  /\ UNCHANGED <<run_entry, runs>>

\* the caller is inside the loop of run
EnterLoop(c, op) ==
  /\ SetCpu(c)
  /\ failure' = "None"
  /\ run_state' = "RUNNING"
  /\ last_op' = op
  /\ run_entry' = Registers(c)
  /\ runs' = runs + 1

Init ==
  /\ register_a = new.register_a
  /\ register_x = new.register_x
  /\ register_y = new.register_y
  /\ status = new.status
  /\ stack_pointer = new.stack_pointer
  /\ program_counter = new.program_counter
  /\ memory = new.memory
  /\ run_state = "READY"
  /\ failure = "None"
  /\ last_op = "new"
  /\ run_entry = Registers(new)
  /\ runs = 0
  /\ loads = 0
  /\ loaded_program = <<>>

\* the call takes no program
NoLoad == UNCHANGED <<loads, loaded_program>>

\* the call is given a program
Given(program) ==
  /\ loads' = loads + 1
  /\ loaded_program' = program

\* cpu.load(program)
Load(program) ==
  /\ CallerHasControl
  /\ Return(load(cpu, program), "load")
  /\ Given(program)

\* cpu.reset()
Reset ==
  /\ CallerHasControl
  /\ Return(reset(cpu), "reset")
  /\ NoLoad

\* cpu.run(): the caller enters the loop
Run ==
  /\ CallerHasControl
  /\ EnterLoop(cpu, "run")
  /\ NoLoad

\* cpu.load_and_run(program): load, reset, and the caller enters the loop
LoadAndRun(program) ==
  /\ CallerHasControl
  /\ LET l == load(cpu, program)
         r == reset(l.cpu)
     IN  IF l.fail # "None" THEN Return(l, "load_and_run")
         ELSE IF r.fail # "None" THEN Return(r, "load_and_run")
         ELSE EnterLoop(r.cpu, "load_and_run")
  /\ Given(program)

\* one iteration of the loop of run
RunStep ==
  /\ run_state = "RUNNING"
  /\ LET r == run_iteration(cpu)
     IN  /\ SetCpu(r.cpu)
         /\ failure' = r.fail
         /\ run_state' = IF r.fail # "None" THEN "FAILED"
                         ELSE IF r.returned THEN "HALTED" ELSE "RUNNING"
         /\ last_op' = r.op
         /\ UNCHANGED <<run_entry, runs>>
  /\ NoLoad

\* the caller assigns a public field: cpu.register_a = v, and so on
WriteRegisterA(v) ==
  /\ CallerHasControl
  /\ Return(Ok([cpu EXCEPT !.register_a = v]), "write_register_a")
  /\ NoLoad

WriteRegisterX(v) ==
  /\ CallerHasControl
  /\ Return(Ok([cpu EXCEPT !.register_x = v]), "write_register_x")
  /\ NoLoad

WriteRegisterY(v) ==
  /\ CallerHasControl
  /\ Return(Ok([cpu EXCEPT !.register_y = v]), "write_register_y")
  /\ NoLoad

WriteStatus(v) ==
  /\ CallerHasControl
  /\ Return(Ok([cpu EXCEPT !.status = v]), "write_status")
  /\ NoLoad

WriteStackPointer(v) ==
  /\ CallerHasControl
  /\ Return(Ok([cpu EXCEPT !.stack_pointer = v]), "write_stack_pointer")
  /\ NoLoad

WriteProgramCounter(v) ==
  /\ CallerHasControl
  /\ Return(Ok([cpu EXCEPT !.program_counter = v]), "write_program_counter")
  /\ NoLoad

\* a direct cpu.mem_write(addr, data) of a harness
MemWrite(addr, data) ==
  /\ CallerHasControl
  /\ Return(IF ~InBounds(addr) THEN Panic(cpu, "OutOfBounds")
            ELSE Ok([cpu EXCEPT !.memory = mem_write(memory, addr, data)]),
            "mem_write")
  /\ NoLoad

\* a direct cpu.mem_read(addr) of a harness
MemRead(addr) ==
  /\ CallerHasControl
  /\ Return(IF ~InBounds(addr) THEN Panic(cpu, "OutOfBounds") ELSE Ok(cpu),
            "mem_read")
  /\ NoLoad

-----------------------------------------------------------------------------
(* Spec: one instance driven through its interface from new(), the way the *)
(* tests of cpu.rs drive it: memory is seeded and one program is loaded    *)
(* before the first run; after run has returned the caller may run again   *)
(* or reset.                                                               *)

Programs ==
  {<<>>,
   <<169, 5, 0>>,
   <<170, 0>>,
   <<169, 192, 170, 232, 0>>,
   <<232, 232, 0>>,
   <<165, 16, 0>>,
   <<133, 16, 0>>,
   <<141, 255, 255>>,
   <<105, 1, 0>>,
   <<232, 2>>,
   <<2>>}

PokeVals == {10, 255}
StatusVals == {0}
SeedAddrs == {16, 65534, 65535}
SeedData == {85}

\* one program is loaded per instance
Loaded == loads > 0

\* the caller has not entered run yet
BeforeRun == run_state = "READY"

\* the caller enters run at most MaxRuns times
MaxRuns == 2
MayRun == runs < MaxRuns

Next ==
  \/ BeforeRun /\ ~Loaded /\ \E p \in Programs : Load(p)
  \/ BeforeRun /\ ~Loaded /\ \E p \in Programs : LoadAndRun(p)
  \/ Reset
  \/ MayRun /\ Run
  \/ RunStep
  \/ BeforeRun /\ \E v \in PokeVals : WriteRegisterA(v)
  \/ BeforeRun /\ \E v \in PokeVals : WriteRegisterX(v)
  \/ BeforeRun /\ \E v \in PokeVals : WriteRegisterY(v)
  \/ BeforeRun /\ \E v \in StatusVals : WriteStatus(v)
  \/ BeforeRun /\ \E addr \in SeedAddrs, data \in SeedData : MemWrite(addr, data)
  \/ BeforeRun /\ \E addr \in SeedAddrs : MemRead(addr)

Spec == Init /\ [][Next]_vars

-----------------------------------------------------------------------------------------------------------------------------------------------------
(* SpecLoad: load and reset from varied prior states, with programs up to  *)
(* and beyond the span between the load base and the end of memory.        *)

\* n bytes 0x00
RECURSIVE Zeros(_)
Zeros(n) ==
  IF n = 0 THEN <<>>
  ELSE IF n % 2 = 0 THEN LET h == Zeros(n \div 2) IN h \o h
  ELSE Append(Zeros(n - 1), 0)

\* the number of bytes from the load base to the end of memory
Span == MemLen - LoadBase

MaxSlack == 3
MaxLoads == 2

\* a program of n bytes: TAX, INX, then 0x00 up to its last MaxSlack + 2
\* places, which hold bytes that are not 0x00 and differ from place to place
LongProgram(n) ==
  LET k == MaxSlack + 2
  IN  <<170, 232>> \o Zeros(n - 2 - k) \o [j \in 1 .. k |-> ((n - k + j) % 251) + 1]

LongPrograms == {LongProgram(Span - d) : d \in 0 .. MaxSlack} \cup {LongProgram(Span + 1)}

ShortPrograms == {<<>>, <<169, 5, 0>>, <<232, 232, 0>>, <<7, 7, 7, 7, 7>>}

LoadPrograms == LongPrograms \cup ShortPrograms

NextLoad ==
  \/ loads < MaxLoads /\ \E p \in LoadPrograms : Load(p)
  \/ Reset
  \/ loads = 0 /\ WriteRegisterA(255)
  \/ loads = 0 /\ WriteStatus(0)
  \/ loads = 0 /\ WriteProgramCounter(4660)
  \/ loads = 0 /\ \E addr \in {ResetVector, ResetVector + 1, MemLen - 1} : MemWrite(addr, 52)

SpecLoad == Init /\ [][NextLoad]_vars

-----------------------------------------------------------------------------
(* SpecInstr: single instructions.  Every initial state is the state in    *)
(* which a harness enters run after it has seeded memory, loaded a program *)
(* of one instruction, reset, and assigned the public fields register_a,   *)
(* register_x, register_y and status.                                      *)

\* memory seeded by direct mem_write calls: pointers in the zero page (one of
\* them across the wrap from 0xFF to 0x00, one to 0xFFFF) and data bytes
SeedImage ==
  (0 :> 255) @@ (16 :> 85) @@ (33 :> 16) @@ (48 :> 255) @@ (49 :> 255) @@
  (254 :> 255) @@ (255 :> 254) @@ (4096 :> 128) @@ (4097 :> 1) @@
  (65534 :> 127)

SeedImages == {EmptyMemory, SeedImage}

RECURSIVE Seeded(_, _)
Seeded(m, image) ==
  IF DOMAIN image = {} THEN m
  ELSE LET a == CHOOSE a \in DOMAIN image : TRUE
           rest == [b \in DOMAIN image \ {a} |-> image[b]]
       IN  Seeded(mem_write(m, a, image[a]), rest)

\* the state in which run is entered
Prepared(program, image, a, x, y, s) ==
  LET c0 == [new EXCEPT !.memory = Seeded(new.memory, image)]
      c1 == load(c0, program).cpu
      c2 == reset(c1).cpu
  IN  [c2 EXCEPT !.register_a = a, !.register_x = x, !.register_y = y,
                 !.status = s]

OperandVals == {0, 16, 32, 48, 254, 255}
IndexPairs == {<<0, 0>>, <<1, 2>>, <<2, 1>>, <<255, 1>>, <<1, 255>>}
AccVals == {0, 128}
EntryStatus == {InitialStatus, 0, 255}

OneByte == {code \in valid_codes : OPCODES_MAP[code].byte_count = 1}
TwoByte == {code \in valid_codes : OPCODES_MAP[code].byte_count = 2}
ThreeByte == {code \in valid_codes : OPCODES_MAP[code].byte_count = 3}

InstrPrograms ==
  {<<code>> : code \in OneByte}
    \cup {<<code, o>> : code \in TwoByte, o \in OperandVals}
    \cup {<<code, lo, hi>> : code \in ThreeByte, lo \in OperandVals, hi \in OperandVals}

\* every instruction of the table, over the small sets of inputs
ProductCases ==
  {<<p, image, a, xy[1], xy[2], s>> :
     p \in InstrPrograms, image \in SeedImages, a \in AccVals,
     xy \in IndexPairs, s \in EntryStatus}

\* every byte as the accumulator, the X register or the immediate operand of
\* the instructions that take it, and every byte outside the table as opcode
SweepCases ==
  {<<(<<170>>), EmptyMemory, a, x, 0, s>> :
     a \in Byte, x \in {0, 1, 128, 255}, s \in EntryStatus}
    \cup {<<(<<232>>), EmptyMemory, 0, x, 0, s>> : x \in Byte, s \in EntryStatus}
    \cup {<<(<<169, v>>), EmptyMemory, a, 0, 0, s>> :
            v \in Byte, a \in {0, 85}, s \in EntryStatus}
    \cup {<<(<<133, 16>>), image, a, 0, 0, s>> :
            image \in SeedImages, a \in Byte, s \in EntryStatus}
    \cup {<<(<<b>>), EmptyMemory, 0, 0, 0, s>> :
            b \in Byte \ valid_codes, s \in EntryStatus}

\* every byte as the operand byte of a two-byte and as the low byte of a
\* three-byte instruction, and every byte as an index register
ResolverSweep ==
  {<<(<<181, o>>), SeedImage, 0, xy[1], xy[2], InitialStatus>> :
     o \in Byte, xy \in {<<1, 255>>, <<255, 1>>, <<128, 127>>}}
    \cup {<<(<<189, lo, hi>>), SeedImage, 0, xy[1], xy[2], InitialStatus>> :
            lo \in Byte, hi \in {0, 255}, xy \in {<<1, 255>>, <<255, 1>>}}
    \cup {<<(<<161, o>>), SeedImage, 0, x, 255 - x, InitialStatus>> :
            o \in {0, 128, 255}, x \in Byte}

InstrCases == ProductCases \cup SweepCases \cup ResolverSweep

InitInstr ==
  \E k \in InstrCases :
    LET c == Prepared(k[1], k[2], k[3], k[4], k[5], k[6])
    IN  /\ register_a = c.register_a
        /\ register_x = c.register_x
        /\ register_y = c.register_y
        /\ status = c.status
        /\ stack_pointer = c.stack_pointer
        /\ program_counter = c.program_counter
        /\ memory = c.memory
        /\ run_state = "RUNNING"
        /\ failure = "None"
        /\ last_op = "run"
        /\ run_entry = Registers(c)
        /\ runs = 1
        /\ loads = 1
        /\ loaded_program = k[1]

NextInstr == RunStep

SpecInstr == InitInstr /\ [][NextInstr]_vars

-----------------------------------------------------------------------------
(* SpecScenario: the end-to-end scenarios of the tests of cpu.rs, for      *)
(* every byte: load_and_run of LDA #v, TAX, INX, BRK from a fresh          *)
(* instance, and load of INX, INX, BRK, reset, X preset, run.              *)

Straight(v) == <<169, v, 170, 232, 0>>
TwoInx == <<232, 232, 0>>

NextScenario ==
  \/ BeforeRun /\ ~Loaded /\ \E v \in Byte : LoadAndRun(Straight(v))
  \/ BeforeRun /\ ~Loaded /\ Load(TwoInx)
  \/ BeforeRun /\ last_op = "load" /\ Reset
  \/ BeforeRun /\ last_op = "reset" /\ \E x \in Byte : WriteRegisterX(x)
  \/ BeforeRun /\ last_op = "write_register_x" /\ Run
  \/ RunStep

SpecScenario == Init /\ [][NextScenario]_vars

-----------------------------------------------------------------------------
(* SpecAdc: ADC alone.  Run is entered as in SpecInstr; the immediate form  *)
(* is given every accumulator, every operand byte and both values of the   *)
(* carry, and the other forms of the table the inputs of ProductCases.     *)

AdcCodes == {code \in valid_codes : OPCODES_MAP[code].name = "ADC"}

\* status as reset leaves it, and the same with CARRY set
AdcEntryStatus == {InitialStatus, InitialStatus + CARRY}

AdcSweep ==
  {<<(<<105, v>>), EmptyMemory, a, 0, 0, s>> :
     v \in Byte, a \in Byte, s \in AdcEntryStatus}

AdcCases == AdcSweep \cup {k \in ProductCases : k[1][1] \in AdcCodes}

InitAdc ==
  \E k \in AdcCases :
    LET c == Prepared(k[1], k[2], k[3], k[4], k[5], k[6])
    IN  /\ register_a = c.register_a
        /\ register_x = c.register_x
        /\ register_y = c.register_y
        /\ status = c.status
        /\ stack_pointer = c.stack_pointer
        /\ program_counter = c.program_counter
        /\ memory = c.memory
        /\ run_state = "RUNNING"
        /\ failure = "None"
        /\ last_op = "run"
        /\ run_entry = Registers(c)
        /\ runs = 1
        /\ loads = 1
        /\ loaded_program = k[1]

NextAdc == RunStep

SpecAdc == InitAdc /\ [][NextAdc]_vars

-----------------------------------------------------------------------------
(* SpecReset: reset from varied states.  Before its one run the caller     *)
(* assigns the public fields, writes the two bytes of the reset vector and *)
(* loads a program; reset may be called at any time, also after the run.   *)

ResetPrograms == {<<232, 232, 0>>, <<169, 5, 0>>}
VectorBytes == {18, 52}

NextReset ==
  \/ Reset
  \/ BeforeRun /\ ~Loaded /\ \E p \in ResetPrograms : Load(p)
  \/ BeforeRun /\ WriteRegisterA(255)
  \/ BeforeRun /\ WriteRegisterX(255)
  \/ BeforeRun /\ WriteRegisterY(255)
  \/ BeforeRun /\ WriteStatus(0)
  \/ BeforeRun /\ WriteStackPointer(0)
  \/ BeforeRun /\ WriteProgramCounter(4660)
  \/ BeforeRun /\ \E addr \in {ResetVector, ResetVector + 1}, data \in VectorBytes :
                    MemWrite(addr, data)
  \/ runs = 0 /\ Run
  \/ RunStep

SpecReset == Init /\ [][NextReset]_vars

-----------------------------------------------------------------------------
(* SpecPlaced: instructions placed anywhere.  A harness seeds memory,      *)
(* writes the bytes of one instruction at an address with mem_write,       *)
(* assigns program_counter and the registers, and enters run.  The         *)
(* instruction is placed at the load base or so that its last byte is in   *)
(* the last cell of memory; it may be cut short of its operand bytes,      *)
(* which then lie where the placement leaves them (beyond the last cell    *)
(* when it ends there).                                                    *)

\* the bytes written at base, base + 1, ... by mem_write
RECURSIVE Placed(_, _, _)
Placed(m, base, bytes) ==
  IF bytes = <<>> THEN m
  ELSE Placed(mem_write(m, base, Head(bytes)), base + 1, Tail(bytes))

\* the state in which run is entered
Positioned(bytes, base, image, x, y, s) ==
  [new EXCEPT !.memory = Placed(Seeded(new.memory, image), base, bytes),
              !.program_counter = base,
              !.register_a = 129, !.register_x = x, !.register_y = y,
              !.status = s]

CutShort ==
  {<<code>> : code \in TwoByte \cup ThreeByte}
    \cup {<<code, lo>> : code \in ThreeByte, lo \in OperandVals}

PlacedBytes == InstrPrograms \cup CutShort

\* where the first byte goes
PlaceAt(bytes, place) ==
  IF place = "base" THEN LoadBase ELSE MemLen - Len(bytes)

PlacedCases ==
  {<<b, place, image, xy[1], xy[2], s>> :
     b \in PlacedBytes, place \in {"base", "end"},
     image \in SeedImages, xy \in {<<0, 0>>, <<1, 2>>},
     s \in {InitialStatus, 0}}

InitPlaced ==
  \E k \in PlacedCases :
    LET c == Positioned(k[1], PlaceAt(k[1], k[2]), k[3], k[4], k[5], k[6])
    IN  /\ register_a = c.register_a
        /\ register_x = c.register_x
        /\ register_y = c.register_y
        /\ status = c.status
        /\ stack_pointer = c.stack_pointer
        /\ program_counter = c.program_counter
        /\ memory = c.memory
        /\ run_state = "RUNNING"
        /\ failure = "None"
        /\ last_op = "run"
        /\ run_entry = Registers(c)
        /\ runs = 1
        /\ loads = 0
        /\ loaded_program = <<>>

NextPlaced == RunStep

SpecPlaced == InitPlaced /\ [][NextPlaced]_vars

-----------------------------------------------------------------------------
(* SpecOwnStatus: one instance driven from new() through load, reset, run  *)
(* and load_and_run; the caller assigns A, X and Y and writes memory       *)
(* before the first run but never writes status.                           *)

OwnPrograms == Programs \cup {<<105, 0, 105, 1>>, <<0>>}

NextOwnStatus ==
  \/ BeforeRun /\ ~Loaded /\ \E p \in OwnPrograms : Load(p)
  \/ BeforeRun /\ ~Loaded /\ \E p \in OwnPrograms : LoadAndRun(p)
  \/ Reset
  \/ MayRun /\ Run
  \/ RunStep
  \/ BeforeRun /\ \E v \in PokeVals : WriteRegisterA(v)
  \/ BeforeRun /\ \E v \in PokeVals : WriteRegisterX(v)
  \/ BeforeRun /\ \E v \in PokeVals : WriteRegisterY(v)
  \/ BeforeRun /\ \E addr \in SeedAddrs, data \in SeedData : MemWrite(addr, data)

SpecOwnStatus == Init /\ [][NextOwnStatus]_vars

-----------------------------------------------------------------------------
(* SpecTerminate: runs entered with the status that new and reset leave.   *)
(* The caller seeds a byte, loads a program, assigns X, resets and runs;   *)
(* it never writes status.  The loop of run is a tight loop of one thread: *)
(* an iteration that can be taken is taken.                                *)

TerminatePrograms == {<<2>>, <<232, 232, 0>>, <<141, 255, 255>>}

NextTerminate ==
  \/ BeforeRun /\ ~Loaded /\ \E p \in TerminatePrograms : Load(p)
  \/ BeforeRun /\ ~Loaded /\ \E p \in TerminatePrograms : LoadAndRun(p)
  \/ Reset
  \/ MayRun /\ Run
  \/ RunStep
  \/ BeforeRun /\ WriteRegisterX(255)
  \/ BeforeRun /\ MemWrite(16, 85)

SpecTerminate == Init /\ [][NextTerminate]_vars /\ WF_vars(RunStep)

-----------------------------------------------------------------------------
(* The claims *)

\* the byte the loop of run fetches next
Fetched == mem_read(memory, program_counter)

\* the loop of run is about to fetch an instruction of the given mnemonic
AtFetch(name) ==
  /\ run_state = "RUNNING"
  /\ InBounds(program_counter)
  /\ Fetched \in DOMAIN OPCODES_MAP
  /\ OPCODES_MAP[Fetched].name = name

\* the address the resolver gives the handler of the fetched instruction
Target ==
  get_operand_address([cpu EXCEPT !.program_counter = program_counter + 1],
                      OPCODES_MAP[Fetched].mode).addr

\* C1 as claimed: the loop of run returns after an instruction if and only if
\* BREAK (0x10) is set in status at that point.
C1_ReturnsIffBreak ==
  [][(run_state = "RUNNING" /\ run_state' # "FAILED")
       => ((run_state' = "HALTED") <=> (BitAnd(status', 16) # 0))]_vars

\* C2 as claimed: when run returns, load_and_run of LDA #v, TAX, INX, BRK has
\* left A = v and X = (v + 1) mod 256, and INX, INX, BRK entered after reset
\* with X preset to x has left X = (x + 2) mod 256.
C2_StraightLineRunsToBrk ==
  run_state = "HALTED" =>
    /\ (Len(loaded_program) = 5 /\ loaded_program = Straight(loaded_program[2]))
         => /\ register_a = loaded_program[2]
            /\ register_x = (loaded_program[2] + 1) % 256
    /\ loaded_program = TwoInx
         => register_x = (run_entry.register_x + 2) % 256

\* C3: for every program of 0 to 0x7FFF bytes and every prior state, load
\* succeeds, and a reset that follows the load sets the program counter to
\* 0x8000.
C3_ResetAfterLoadAtBase ==
  [][/\ (last_op' = "load" /\ Len(loaded_program') <= 32767) => failure' = "None"
     /\ (last_op = "load" /\ last_op' = "reset")
          => (failure' = "None" /\ program_counter' = 32768)]_vars

\* a reset has followed the load of a program of the greatest length
C3_Witness ==
  /\ last_op = "reset"
  /\ Len(loaded_program) = 32767
  /\ loads = 2
  /\ program_counter = 32768
  /\ register_a = 0

\* C4 as claimed: after load of at most 0x7FFF bytes every program byte is in
\* memory at its place and the word at 0xFFFC is 0x8000.
C4_EveryByteInPlace ==
  (last_op = "load" /\ Len(loaded_program) <= 32767) =>
    /\ failure = "None"
    /\ \A i \in 1 .. Len(loaded_program) :
         mem_read(memory, 32768 + i - 1) = loaded_program[i]
    /\ mem_read_u16(memory, 65532) = 32768

\* C4 amended: after load of at most 0x7FFF bytes every program byte whose
\* place is not one of the two bytes of the reset vector (0xFFFC, 0xFFFD) is
\* in memory at its place, and the word at 0xFFFC is 0x8000.
C4_EveryByteInPlaceButVector ==
  (last_op = "load" /\ Len(loaded_program) <= 32767) =>
    /\ failure = "None"
    /\ \A i \in 1 .. Len(loaded_program) :
         (32768 + i - 1) \notin {65532, 65533} =>
           mem_read(memory, 32768 + i - 1) = loaded_program[i]
    /\ mem_read_u16(memory, 65532) = 32768

\* a program of the greatest length is loaded over an earlier one, its last
\* byte is at 0xFFFE and the vector holds 0x8000
C4_Witness ==
  /\ last_op = "load"
  /\ failure = "None"
  /\ loads = 2
  /\ Len(loaded_program) = 32767
  /\ mem_read(memory, 65534) = loaded_program[32767]
  /\ loaded_program[32767] # 0
  /\ loaded_program[32765] # 0
  /\ mem_read(memory, 65532) = 0

\* C5 as claimed: a byte read and a byte write succeed at every address from
\* 0x0000 to 0xFFFF, issued directly or by an instruction that resolves to the
\* address, and a read after a write returns the written byte.
C5_MemoryCoversAddressSpace ==
  [][/\ \A addr \in SeedAddrs :
          (BeforeRun /\ MemRead(addr)) => failure' = "None"
     /\ \A addr \in SeedAddrs, data \in SeedData :
          (BeforeRun /\ MemWrite(addr, data))
            => (failure' = "None" /\ mem_read(memory', addr) = data)
     /\ (AtFetch("LDA") \/ AtFetch("STA") \/ AtFetch("ADC"))
          => failure' # "OutOfBounds"]_vars

\* C6: a fetched byte without a table entry ends the step in UnknownOpcode;
\* only the program counter, advanced by the fetch, has changed, and nothing
\* follows a failed step.
C6_UnknownOpcodeFails ==
  [][/\ run_state # "FAILED"
     /\ (run_state = "RUNNING" /\ InBounds(program_counter)
           /\ Fetched \notin valid_codes)
          => /\ run_state' = "FAILED"
             /\ failure' = "UnknownOpcode"
             /\ program_counter' = program_counter + 1
             /\ register_a' = register_a
             /\ register_x' = register_x
             /\ register_y' = register_y
             /\ stack_pointer' = stack_pointer
             /\ status' = status
             /\ memory' = memory]_vars

\* run, entered with INTERRUPT_DISABLE clear, has failed on a byte that is not
\* in the table
C6_Witness ==
  /\ run_state = "FAILED"
  /\ failure = "UnknownOpcode"
  /\ last_op = "lookup"
  /\ loaded_program = <<255>>
  /\ status = 0
  /\ program_counter = 32769

\* C7 as claimed: LDA, in every addressing mode of the table, sets A to the
\* byte at the resolved address, ZERO and NEGATIVE from that byte, and changes
\* nothing else but the program counter.
C7_LdaLoads ==
  [][AtFetch("LDA")
       => /\ run_state' # "FAILED"
          /\ register_a' = mem_read(memory, Target)
          /\ (BitAnd(status', 2) # 0) <=> (register_a' = 0)
          /\ (BitAnd(status', 128) # 0) <=> (register_a' >= 128)
          /\ BitAnd(status', 125) = BitAnd(status, 125)
          /\ register_x' = register_x
          /\ register_y' = register_y
          /\ stack_pointer' = stack_pointer
          /\ memory' = memory]_vars

\* C8 as claimed: after STA, in every addressing mode of the table, a direct
\* read at the resolved address succeeds and returns the accumulator, and the
\* status byte and the registers other than the program counter are unchanged.
C8_StaRoundTrip ==
  [][AtFetch("STA")
       => /\ run_state' # "FAILED"
          /\ InBounds(Target)
          /\ mem_read(memory', Target) = register_a
          /\ status' = status
          /\ register_a' = register_a
          /\ register_x' = register_x
          /\ register_y' = register_y
          /\ stack_pointer' = stack_pointer]_vars

\* What the code does for C7 and C8: below the last address LDA and STA do as
\* claimed, and at the resolved address 0xFFFF, which `[u8; 0xFFFF]` does not
\* hold, they end in the array-bounds failure.
LdaStaBelowLastAddress ==
  [][/\ (AtFetch("LDA") /\ InBounds(Target))
          => /\ run_state' # "FAILED"
             /\ register_a' = mem_read(memory, Target)
             /\ (BitAnd(status', 2) # 0) <=> (register_a' = 0)
             /\ (BitAnd(status', 128) # 0) <=> (register_a' >= 128)
             /\ BitAnd(status', 125) = BitAnd(status, 125)
             /\ register_x' = register_x
             /\ register_y' = register_y
             /\ stack_pointer' = stack_pointer
             /\ memory' = memory
     /\ (AtFetch("STA") /\ InBounds(Target))
          => /\ run_state' # "FAILED"
             /\ mem_read(memory', Target) = register_a
             /\ status' = status
             /\ register_a' = register_a
             /\ register_x' = register_x
             /\ register_y' = register_y
             /\ stack_pointer' = stack_pointer
     /\ ((AtFetch("LDA") \/ AtFetch("STA")) /\ ~InBounds(Target))
          => (Target = 65535 /\ failure' = "OutOfBounds")]_vars

\* C9: INX never fails; X becomes (X + 1) mod 256, ZERO is set iff the new X
\* is 0 and NEGATIVE iff bit 7 of the new X is set.
C9_InxWraps ==
  [][AtFetch("INX")
       => /\ run_state' # "FAILED"
          /\ failure' = "None"
          /\ register_x' = (register_x + 1) % 256
          /\ (BitAnd(status', 2) # 0) <=> (register_x' = 0)
          /\ (BitAnd(status', 128) # 0) <=> (register_x' >= 128)]_vars

\* INX has taken X from 0xFF to 0x00 and set ZERO, which was clear
C9_Witness ==
  /\ last_op = "INX"
  /\ failure = "None"
  /\ run_entry.register_x = 255
  /\ BitAnd(run_entry.status, 2) = 0
  /\ register_x = 0
  /\ BitAnd(status, 2) # 0
  /\ BitAnd(status, 128) = 0

\* C10: TAX copies A into X whatever X held; ZERO and NEGATIVE are those of
\* the copied value, and A is unchanged.
C10_TaxCopies ==
  [][AtFetch("TAX")
       => /\ run_state' # "FAILED"
          /\ register_x' = register_a
          /\ register_a' = register_a
          /\ (BitAnd(status', 2) # 0) <=> (register_a = 0)
          /\ (BitAnd(status', 128) # 0) <=> (register_a >= 128)]_vars

\* TAX has copied 0x00 over a negative X: ZERO is set and NEGATIVE, which was
\* set, is clear
C10_Witness ==
  /\ last_op = "TAX"
  /\ failure = "None"
  /\ run_entry.register_x = 128
  /\ run_entry.register_a = 0
  /\ BitAnd(run_entry.status, 128) # 0
  /\ register_x = 0
  /\ register_a = 0
  /\ BitAnd(status, 2) # 0
  /\ BitAnd(status, 128) = 0

\* the resolver gives the handler of the fetched instruction an address, and
\* the byte at that address is one that memory holds
ReadsOperand ==
  /\ get_operand_address([cpu EXCEPT !.program_counter = program_counter + 1],
                         OPCODES_MAP[Fetched].mode).fail = "None"
  /\ InBounds(Target)

\* the 9-bit sum A + operand + carry-in of the ADC about to be executed
NineBitSum == register_a + mem_read(memory, Target) + (status % 2)

\* C11: ADC sets A to (A + operand + carry-in) mod 256, sets CARRY when that
\* result is at most the prior A and clears it otherwise, and sets ZERO iff
\* the result is 0 and NEGATIVE iff bit 7 of the result is set.
C11_AdcAddsWithCarry ==
  [][(AtFetch("ADC") /\ ReadsOperand)
       => /\ run_state' # "FAILED"
          /\ register_a' = NineBitSum % 256
          /\ (BitAnd(status', 1) # 0) <=> (register_a' <= register_a)
          /\ (BitAnd(status', 2) # 0) <=> (register_a' = 0)
          /\ (BitAnd(status', 128) # 0) <=> (register_a' >= 128)]_vars

\* ADC #$FF with A = 0x01 and the carry set has wrapped to 0x01: CARRY is set,
\* ZERO and NEGATIVE are clear
C11_Witness ==
  /\ last_op = "ADC"
  /\ failure = "None"
  /\ loaded_program = <<105, 255>>
  /\ run_entry.register_a = 1
  /\ BitAnd(run_entry.status, 1) # 0
  /\ register_a = 1
  /\ BitAnd(status, 1) # 0
  /\ BitAnd(status, 2) = 0
  /\ BitAnd(status, 128) = 0

\* C13 as claimed: ADC changes no status bit other than CARRY, ZERO and
\* NEGATIVE (OVERFLOW, INTERRUPT_DISABLE, DECIMAL_MODE, BREAK and BREAK2 keep
\* their values), and X, Y, the stack pointer and memory are unchanged.
C13_AdcKeepsOtherFlags ==
  [][(AtFetch("ADC") /\ ReadsOperand)
       => /\ BitAnd(status', 124) = BitAnd(status, 124)
          /\ register_x' = register_x
          /\ register_y' = register_y
          /\ stack_pointer' = stack_pointer
          /\ memory' = memory]_vars

\* What the code does for C13: ADC sets OVERFLOW together with CARRY and
\* clears it together with CARRY; the other four bits, X, Y, the stack
\* pointer and memory are unchanged.
AdcOverflowFollowsCarry ==
  [][(AtFetch("ADC") /\ ReadsOperand)
       => /\ (BitAnd(status', 64) # 0) <=> (BitAnd(status', 1) # 0)
          /\ BitAnd(status', 60) = BitAnd(status, 60)
          /\ register_x' = register_x
          /\ register_y' = register_y
          /\ stack_pointer' = stack_pointer
          /\ memory' = memory]_vars

\* C14: whenever the 9-bit sum A + operand + carry-in is above 0xFF, CARRY is
\* set after ADC; when CARRY is clear after ADC the 9-bit sum is at most 0xFF
\* (the only difference from the standard carry-out is a carry that is set
\* though the sum is at most 0xFF).
C14_AdcCarryOnlyFalseCarries ==
  [][(AtFetch("ADC") /\ ReadsOperand)
       => /\ run_state' # "FAILED"
          /\ (NineBitSum > 255) => (BitAnd(status', 1) # 0)
          /\ (BitAnd(status', 1) = 0)
               => (NineBitSum <= 255 /\ register_a' = NineBitSum
                     /\ register_a' > register_a)]_vars

\* a false carry: ADC #$00 with A = 0x05 and the carry clear, a 9-bit sum of
\* 0x05, has left CARRY set
C14_Witness ==
  /\ last_op = "ADC"
  /\ failure = "None"
  /\ loaded_program = <<105, 0>>
  /\ run_entry.register_a = 5
  /\ BitAnd(run_entry.status, 1) = 0
  /\ register_a = 5
  /\ BitAnd(status, 1) # 0

\* C12: reset never fails; it sets A = X = Y = 0, status = 0b0010_0100, the
\* stack pointer to 0xFD and the program counter to the little-endian word at
\* 0xFFFC, and changes no memory byte; the state a reset leaves is one that a
\* second reset leaves as it is.
C12_ResetRestoresDefaults ==
  /\ [][last_op' = "reset"
          => /\ failure' = "None"
             /\ register_a' = 0
             /\ register_x' = 0
             /\ register_y' = 0
             /\ status' = 36
             /\ stack_pointer' = 253
             /\ program_counter' =
                  mem_read(memory, 65532) + 256 * mem_read(memory, 65533)
             /\ memory' = memory]_vars
  /\ [](last_op = "reset" => reset(cpu) = Ok(cpu))

\* reset has followed a run entered with A = X = Y = 0xFF, status 0x00 and the
\* stack pointer 0x00, with the bytes 0x34, 0x12 at 0xFFFC, 0xFFFD
C12_Witness ==
  /\ last_op = "reset"
  /\ runs = 1
  /\ run_entry.register_a = 255
  /\ run_entry.register_x = 255
  /\ run_entry.register_y = 255
  /\ run_entry.status = 0
  /\ run_entry.stack_pointer = 0
  /\ mem_read(memory, 65532) = 52
  /\ mem_read(memory, 65533) = 18
  /\ program_counter = 4660
  /\ register_a = 0
  /\ register_x = 0
  /\ register_y = 0
  /\ status = 36
  /\ stack_pointer = 253

\* C15: every step of the loop that does not fail has fetched a byte of the
\* table at p = program_counter and leaves program_counter = p + byte_count,
\* an address of the u16 range; the handler it dispatched to has left the
\* program counter at p + 1, where the fetch put it.
C15_PcAfterInstruction ==
  [][(run_state = "RUNNING" /\ run_state' # "FAILED")
       => /\ InBounds(program_counter)
          /\ Fetched \in DOMAIN OPCODES_MAP
          /\ program_counter' = program_counter + OPCODES_MAP[Fetched].byte_count
          /\ program_counter' <= 65535
          /\ dispatch([cpu EXCEPT !.program_counter = program_counter + 1],
                      OPCODES_MAP[Fetched].name,
                      OPCODES_MAP[Fetched].mode).cpu.program_counter
               = program_counter + 1]_vars

\* a three-byte STA fetched at 0xFFFC, its operand bytes in the last two
\* cells, has left the program counter at 0xFFFF
C15_Witness ==
  /\ last_op = "STA"
  /\ failure = "None"
  /\ run_entry.program_counter = 65532
  /\ mem_read(memory, 65532) = 141
  /\ program_counter = 65535

\* the operand byte and the operand word of the instruction about to be
\* fetched, and the bytes of the zero page
OperandByte == mem_read(memory, program_counter + 1)
OperandWord == OperandByte + 256 * mem_read(memory, program_counter + 2)
ZeroPageByte(a) == mem_read(memory, a % 256)

\* the effective address of a mode as the specification defines it
SpecAddress(mode) ==
  CASE mode = "Immediate" -> program_counter + 1
    [] mode = "ZeroPage" -> OperandByte
    [] mode = "ZeroPage_X" -> (OperandByte + register_x) % 256
    [] mode = "ZeroPage_Y" -> (OperandByte + register_y) % 256
    [] mode = "Absolute" -> OperandWord
    [] mode = "Absolute_X" -> (OperandWord + register_x) % 65536
    [] mode = "Absolute_Y" -> (OperandWord + register_y) % 65536
    [] mode = "Indirect_X" ->
         ZeroPageByte(OperandByte + register_x)
           + 256 * ZeroPageByte(OperandByte + register_x + 1)
    [] mode = "Indirect_Y" ->
         (ZeroPageByte(OperandByte) + 256 * ZeroPageByte(OperandByte + 1)
            + register_y) % 65536

\* C16: wherever the loop is about to fetch an instruction whose operand bytes
\* are in memory, the resolver, given any mode but NoneAddressing after the
\* fetch, returns the address the specification defines for that mode; and the
\* handlers that call it act at that address: LDA and ADC read the byte there,
\* STA writes the accumulator there and nowhere else.
C16_ResolverAddresses ==
  /\ [](( run_state = "RUNNING" /\ InBounds(program_counter + 2))
          => \A mode \in AddressingModes \ {"NoneAddressing"} :
               get_operand_address(
                 [cpu EXCEPT !.program_counter = program_counter + 1], mode)
                 = Resolved(SpecAddress(mode)))
  /\ [][LET mode == OPCODES_MAP[Fetched].mode
        IN  /\ (AtFetch("LDA") /\ run_state' # "FAILED")
                 => register_a' = mem_read(memory, SpecAddress(mode))
            /\ (AtFetch("ADC") /\ run_state' # "FAILED")
                 => register_a' = (register_a + mem_read(memory, SpecAddress(mode))
                                     + (status % 2)) % 256
            /\ (AtFetch("STA") /\ run_state' # "FAILED")
                 => memory' = mem_write(memory, SpecAddress(mode), register_a)]_vars

\* LDA ($FE,X) with X = 1: the pointer is 0xFF, its low byte is read at 0xFF
\* and its high byte at 0x00, which gives 0xFFFE, and A is the byte there
C16_Witness ==
  /\ last_op = "LDA"
  /\ failure = "None"
  /\ loaded_program = <<161, 254>>
  /\ run_entry.register_x = 1
  /\ mem_read(memory, 255) = 254
  /\ mem_read(memory, 0) = 255
  /\ mem_read(memory, 65534) = 127
  /\ register_a = 127

\* the length of an instruction that the operand bytes of a mode make
BytesOfMode(mode) ==
  CASE mode = "NoneAddressing" -> 1
    [] mode \in {"Immediate", "ZeroPage", "ZeroPage_X", "ZeroPage_Y",
                 "Indirect_X", "Indirect_Y"} -> 2
    [] mode \in {"Absolute", "Absolute_X", "Absolute_Y"} -> 3

\* C17: every entry of the table named LDA, STA or ADC has a mode other than
\* NoneAddressing, every entry named BRK, TAX or INX has NoneAddressing, and
\* every entry has the byte count of its mode; no run ends in
\* UnsupportedAddressingMode, and BRK, TAX and INX, which do not call the
\* resolver, never fail.
C17_TableMatchesResolver ==
  /\ [](/\ failure # "UnsupportedAddressingMode"
        /\ \A code \in DOMAIN OPCODES_MAP :
             LET oc == OPCODES_MAP[code]
             IN  /\ oc.name \in {"LDA", "STA", "ADC"} => oc.mode # "NoneAddressing"
                 /\ oc.name \in {"BRK", "TAX", "INX"} => oc.mode = "NoneAddressing"
                 /\ oc.mode \in AddressingModes
                 /\ oc.byte_count = BytesOfMode(oc.mode))
  /\ [][(AtFetch("BRK") \/ AtFetch("TAX") \/ AtFetch("INX"))
          => (failure' = "None" /\ program_counter' = program_counter + 1)]_vars

\* ADC $0010,Y, a three-byte entry that calls the resolver, has been executed
\* and the program counter is past its two operand bytes
C17_Witness ==
  /\ last_op = "ADC"
  /\ failure = "None"
  /\ loaded_program = <<121, 16, 0>>
  /\ run_entry.program_counter = 32768
  /\ program_counter = 32771
  /\ run_state = "HALTED"

\* C19: no run ends in UnimplementedInstruction: every entry of the table is
\* named LDA, STA, ADC, BRK, TAX or INX; every step of the loop that fetches a
\* byte is the step of one of these six handlers or ends in UnknownOpcode, and
\* none is a step of SBC.
C19_NoUnimplementedInstruction ==
  /\ [](/\ failure # "UnimplementedInstruction"
        /\ last_op # "SBC"
        /\ \A code \in DOMAIN OPCODES_MAP :
             OPCODES_MAP[code].name \in {"LDA", "STA", "ADC", "BRK", "TAX", "INX"})
  /\ [][(run_state = "RUNNING" /\ InBounds(program_counter))
          => \/ /\ Fetched \in valid_codes
                /\ last_op' \in {"LDA", "STA", "ADC", "BRK", "TAX", "INX"}
                /\ last_op' = OpCode_from(Fetched).name
             \/ /\ Fetched \notin valid_codes
                /\ failure' = "UnknownOpcode"]_vars

\* the byte 0xE9, which a 6502 decodes as SBC, has been fetched and the run
\* has ended in UnknownOpcode
C19_Witness ==
  /\ run_state = "FAILED"
  /\ failure = "UnknownOpcode"
  /\ last_op = "lookup"
  /\ loaded_program = <<233>>
  /\ program_counter = 32769
  /\ run_entry.status = 36

\* C18: in every state reached through load, reset, run and load_and_run
\* without a write of status by the caller, INTERRUPT_DISABLE (0x04) and
\* BREAK2 (0x20) are both set.
C18_InterruptDisableAndBreak2Set ==
  BitAnd(status, 36) = 36

\* a second ADC has cleared CARRY and OVERFLOW, which the first had set with
\* ZERO, and has left status at 0b0010_0100
C18_Witness ==
  /\ last_op = "ADC"
  /\ failure = "None"
  /\ loaded_program = <<105, 0, 105, 1>>
  /\ runs = 2
  /\ run_entry.status = 103
  /\ register_a = 2
  /\ status = 36

\* C20: a run entered with INTERRUPT_DISABLE set, as reset leaves it,
\* terminates: it eventually returns or fails, and it does so in the first
\* iteration of the loop, so the loop is never iterated twice.
C20_RunTerminates ==
  /\ (run_state = "RUNNING") ~> (run_state \in {"HALTED", "FAILED"})
  /\ [][(run_state = "RUNNING" /\ BitAnd(run_entry.status, 4) # 0)
          => run_state' \in {"HALTED", "FAILED"}]_vars

\* a run entered after reset, with memory seeded and X assigned, has returned
\* after INX
C20_Witness ==
  /\ run_state = "HALTED"
  /\ failure = "None"
  /\ last_op = "INX"
  /\ runs = 1
  /\ run_entry.status = 36
  /\ run_entry.register_x = 255
  /\ register_x = 0
  /\ mem_read(memory, 16) = 85

====
